---- MODULE Spec2Model ----
(***************************************************************************)
(* MultiModalRelevancyEvaluator                                            *)
(* (llama_index/evaluation/multi_modal/relevancy.py).                      *)
(*                                                                         *)
(* A Python str is a sequence of chunks (TLA+ strings); the model's raw    *)
(* answer is a sequence of one-character chunks.  An optional argument is  *)
(* None or Some(value).  A call of evaluate / aevaluate is one action; the *)
(* answers its collaborators gave during the call are kept in `responses`, *)
(* the calls it made to them, in order, in `calls`.                        *)
(***************************************************************************)
EXTENDS Integers, Sequences, FiniteSets

VARIABLES
    _multi_modal_llm,   \* self._multi_modal_llm
    _raise_error,       \* self._raise_error
    _eval_template,     \* self._eval_template
    _refine_template,   \* self._refine_template
    ctor,               \* the arguments __init__ was called with
    updates,            \* the mappings _update_prompts was called with, oldest first
    call,               \* the evaluate / aevaluate call last made, with its arguments
    responses,          \* what the collaborators answered during that call
    calls,              \* the collaborator calls that call made, in order
    outcome             \* how that call ended: a returned result or a raised error

vars == <<_multi_modal_llm, _raise_error, _eval_template, _refine_template,
          ctor, updates, call, responses, calls, outcome>>

----------------------------------------------------------------------------
(* Bounds *)

MaxRawLen == 5        \* longest raw model answer, in characters
MaxDocsPerPath == 2   \* most documents the reader yields for one path
MaxUpdates == 2       \* most _update_prompts calls in one behaviour

----------------------------------------------------------------------------
(* Values *)

None == [some |-> FALSE, v |-> <<>>]
Some(x) == [some |-> TRUE, v |-> x]

\* Python truthiness of an optional list: None and [] are falsy.
Truthy(opt) == opt.some /\ Len(opt.v) > 0

PromptTemplate(template) == [template |-> template]

DEFAULT_EVAL_TEMPLATE ==
    PromptTemplate(<<"Your task is to evaluate if the response for the query     is in line with the images and textual context information provided.\n",
                     "You have two options to answer. Either YES/ NO.\n",
                     "Answer - YES, if the response for the query     is in line with context information otherwise NO.\n",
                     "Query and Response: \n ", "{query_str}", "\n",
                     "Context: \n ", "{context_str}", "\n",
                     "Answer: ">>)

DEFAULT_REFINE_TEMPLATE ==
    PromptTemplate(<<"We want to understand if the following query and response isin line with the context information: \n ",
                     "{query_str}", "\n",
                     "We have provided an existing YES/NO answer: \n ",
                     "{existing_answer}", "\n",
                     "We have the opportunity to refine the existing answer (only if needed) with some more context below.\n",
                     "------------\n", "{context_msg}", "\n", "------------\n",
                     "If the existing answer was already YES, still answer YES. ",
                     "If the information is present in the new context, answer YES. ",
                     "Otherwise answer NO.\n">>)

DEFAULT_MULTI_MODAL_LLM == "OpenAIMultiModal(model=gpt-4-vision-preview, max_new_tokens=1000)"

RECURSIVE Flatten(_)
Flatten(ss) == IF ss = <<>> THEN <<>> ELSE Head(ss) \o Flatten(Tail(ss))

\* BasePromptTemplate.format(context_str=..., query_str=...): every slot chunk
\* is replaced by the text given for it, the other chunks are kept.
Format(template, context_str, query_str) ==
    Flatten([i \in 1..Len(template.template) |->
                IF template.template[i] = "{query_str}" THEN query_str
                ELSE IF template.template[i] = "{context_str}" THEN context_str
                ELSE <<template.template[i]>>])

\* sep.join(strs)
RECURSIVE Join(_, _)
Join(sep, strs) ==
    IF strs = <<>> THEN <<>>
    ELSE IF Len(strs) = 1 THEN strs[1]
    ELSE strs[1] \o sep \o Join(sep, Tail(strs))

\* str.lower() on one character.
LowerChar(c) ==
    CASE c = "Y" -> "y"
      [] c = "E" -> "e"
      [] c = "S" -> "s"
      [] c = "N" -> "n"
      [] c = "O" -> "o"
      [] OTHER -> c

Lower(s) == [i \in 1..Len(s) |-> LowerChar(s[i])]

\* sub in s
Contains(sub, s) ==
    \E i \in 1..(Len(s) - Len(sub) + 1) : SubSeq(s, i, i + Len(sub) - 1) = sub

\* str(response_obj)
Str(response_obj) == response_obj.text

----------------------------------------------------------------------------
(* Errors, results, collaborator calls *)

Exc(type, msg) == [type |-> type, msg |-> msg]
NoExc == Exc("", "")

NoResult ==
    [query |-> <<>>, response |-> <<>>, passing |-> FALSE, score |-> 0,
     feedback |-> <<>>]

Raised(exc) == [kind |-> "raise", exc |-> exc, result |-> NoResult]
Returned(result) == [kind |-> "return", exc |-> NoExc, result |-> result]
NoOutcome == [kind |-> "none", exc |-> NoExc, result |-> NoResult]

Document(path, idx) == [kind |-> "document", path |-> path, idx |-> idx]
ImageNode(doc) == [kind |-> "node", path |-> doc.path, idx |-> doc.idx]

\* SimpleDirectoryReader(input_files=[path]).load_data() yielding n documents
Documents(path, n) == [k \in 1..n |-> Document(path, k)]

\* SimpleNodeParser.get_nodes_from_documents(docs)
GetNodesFromDocuments(docs) == [k \in 1..Len(docs) |-> ImageNode(docs[k])]

CallRecord(op, strs, objs) == [op |-> op, strs |-> strs, objs |-> objs]

----------------------------------------------------------------------------
(* Collaborator responses *)

Response(kind, exc, n, text) == [kind |-> kind, exc |-> exc, n |-> n, text |-> text]

Unused == Response("unused", NoExc, 0, <<>>)
ReaderRaises == Response("raise", Exc("FileNotFoundError", "load_data"), 0, <<>>)
ParserRaises == Response("raise", Exc("ParserError", "get_nodes_from_documents"), 0, <<>>)
ModelRaises == Response("raise", Exc("APIError", "complete"), 0, <<>>)
ReaderYields(n) == Response("documents", NoExc, n, <<>>)
ParserYields == Response("nodes", NoExc, 0, <<>>)
ModelAnswers(text) == Response("text", NoExc, 0, text)

LoadResponses == {ReaderRaises} \cup {ReaderYields(n) : n \in 0..MaxDocsPerPath}
ParseResponses == {ParserRaises, ParserYields}

\* The response the i-th load_data call gets (Unused: there is none).
LoadResponseAt(loads, i) == IF i <= Len(loads) THEN loads[i] ELSE Unused

NoResponses == [loads |-> <<>>, parse |-> Unused, model |-> Unused]

\* How many responses of each collaborator a record of responses holds.
Shape(env) ==
    [loads |-> Len(env.loads), parse |-> env.parse # Unused,
     model |-> env.model # Unused]

----------------------------------------------------------------------------
(* evaluate / aevaluate, statement by statement *)

Unbound == [some |-> FALSE, v |-> <<>>]

\* Variant: "if not query or not contexts or not response".
ArgumentMissingFalsy(query, response, contexts) ==
    \/ ~query.some \/ Len(query.v) = 0
    \/ ~contexts.some \/ Len(contexts.v) = 0
    \/ ~response.some \/ Len(response.v) = 0

\* if query is None or contexts is None or response is None
ArgumentMissing(query, response, contexts) ==
    query = None \/ contexts = None \/ response = None

\* context_str = "\n\n".join(contexts)
ContextStr(contexts) == Join(<<"\n\n">>, contexts)

\* evaluation_query_str = f"Question: {query}\nResponse: {response}"
EvaluationQueryStr(query, response) ==
    <<"Question: ">> \o query \o <<"\nResponse: ">> \o response

FormatCall(template, context_str, query_str) ==
    CallRecord("format", <<template.template, context_str, query_str>>, <<>>)

\* Variant: the new documents are put in front of the accumulated ones.
AccumulateDocumentsInFront(image_documents, loaded) == loaded \o image_documents

\* image_documents += SimpleDirectoryReader(input_files=[image_path]).load_data()
AccumulateDocuments(image_documents, loaded) == image_documents \o loaded

\* for image_path in image_paths: ...   (from the i-th path on)
RECURSIVE LoadImageDocuments(_, _, _, _, _)
LoadImageDocuments(image_paths, loads, i, image_documents, log) ==
    IF i > Len(image_paths)
    THEN [raised |-> FALSE, exc |-> NoExc, image_documents |-> image_documents,
          calls |-> log, loads |-> i - 1]
    ELSE LET r == LoadResponseAt(loads, i)
             made == log \o <<CallRecord("load_data", <<(<<image_paths[i]>>)>>, <<>>)>>
         IN  IF r.kind = "documents"
             THEN LoadImageDocuments(image_paths, loads, i + 1,
                      AccumulateDocuments(image_documents,
                                          Documents(image_paths[i], r.n)),
                      made)
             ELSE [raised |-> TRUE, exc |-> r.exc,
                   image_documents |-> image_documents, calls |-> made,
                   loads |-> i]

\* image_nodes = node_parser.get_nodes_from_documents(image_documents)
ParseImageNodes(image_documents, parse, log) ==
    LET made == log \o <<CallRecord("get_nodes_from_documents", <<>>, image_documents)>>
    IN  IF parse.kind = "nodes"
        THEN [raised |-> FALSE, exc |-> NoExc,
              image_nodes |-> Some(GetNodesFromDocuments(image_documents)),
              calls |-> made]
        ELSE [raised |-> TRUE, exc |-> parse.exc, image_nodes |-> Unbound,
              calls |-> made]

\* The model call of either entry point: reading the unassigned local
\* image_nodes raises UnboundLocalError before the call is made.
InvokeModel(op, fmt_prompt, image_nodes, model, log) ==
    IF ~image_nodes.some
    THEN [raised |-> TRUE,
          exc |-> Exc("UnboundLocalError", "image_nodes"),
          response_obj |-> [text |-> <<>>], calls |-> log, called |-> FALSE]
    ELSE LET made == log \o <<CallRecord(op, <<fmt_prompt>>, image_nodes.v)>>
         IN  IF model.kind = "text"
             THEN [raised |-> FALSE, exc |-> NoExc,
                   response_obj |-> [text |-> model.text], calls |-> made,
                   called |-> TRUE]
             ELSE [raised |-> TRUE, exc |-> model.exc,
                   response_obj |-> [text |-> <<>>], calls |-> made,
                   called |-> TRUE]

\* Variant: a failure of the model is swallowed and read as an empty answer.
InvokeCompleteSwallowing(fmt_prompt, image_nodes, model, log) ==
    LET r == InvokeModel("complete", fmt_prompt, image_nodes, model, log)
    IN  IF r.raised /\ r.called /\ model.kind = "raise"
        THEN [r EXCEPT !.raised = FALSE, !.exc = NoExc]
        ELSE r

\* response_obj = self._multi_modal_llm.complete(prompt=fmt_prompt, image_documents=image_nodes)
InvokeComplete(fmt_prompt, image_nodes, model, log) ==
    InvokeModel("complete", fmt_prompt, image_nodes, model, log)

\* Variant: aevaluate alone starts from image_nodes = [].
InvokeACompleteFromEmpty(fmt_prompt, image_nodes, model, log) ==
    InvokeModel("acomplete", fmt_prompt,
                IF image_nodes.some THEN image_nodes ELSE Some(<<>>), model, log)

\* response_obj = await self._multi_modal_llm.acomplete(prompt=fmt_prompt, image_documents=image_nodes)
InvokeAComplete(fmt_prompt, image_nodes, model, log) ==
    InvokeModel("acomplete", fmt_prompt, image_nodes, model, log)

\* Variant: "yes" in raw_response_txt, the case kept.
ContainsYesCaseKept(raw_response_txt) == Contains(<<"y", "e", "s">>, raw_response_txt)

\* "yes" in raw_response_txt.lower()
ContainsYes(raw_response_txt) == Contains(<<"y", "e", "s">>, Lower(raw_response_txt))

\* Variant: the raise_error flag is not consulted.
JudgeNeverRaising(raw_response_txt, raise_error) ==
    [raised |-> FALSE, exc |-> NoExc, passing |-> ContainsYes(raw_response_txt)]

\* if "yes" in ...: passing = True / else: if self._raise_error: raise ...; passing = False
Judge(raw_response_txt, raise_error) ==
    IF ContainsYes(raw_response_txt)
    THEN [raised |-> FALSE, exc |-> NoExc, passing |-> TRUE]
    ELSE IF raise_error
         THEN [raised |-> TRUE, exc |-> Exc("ValueError", "The response is invalid"),
               passing |-> FALSE]
         ELSE [raised |-> FALSE, exc |-> NoExc, passing |-> FALSE]

\* Variant: the two scores are swapped.
ScoreSwapped(passing) == IF passing THEN 0 ELSE 1

\* score=1.0 if passing else 0.0   (1 stands for 1.0, 0 for 0.0)
Score(passing) == IF passing THEN 1 ELSE 0

EvaluationResult(query, response, passing, raw_response_txt) ==
    [query |-> query, response |-> response, passing |-> passing,
     score |-> Score(passing), feedback |-> raw_response_txt]

Run(out, log, loads, parse, model) ==
    [outcome |-> out, calls |-> log,
     used |-> [loads |-> loads, parse |-> parse, model |-> model]]

\* From raw_response_txt = str(response_obj) to the return.
Conclude(self, args, completed, loads, parse) ==
    IF completed.raised
    THEN Run(Raised(completed.exc), completed.calls, loads, parse, completed.called)
    ELSE LET raw_response_txt == Str(completed.response_obj)
             verdict == Judge(raw_response_txt, self.raise_error)
         IN  IF verdict.raised
             THEN Run(Raised(verdict.exc), completed.calls, loads, parse, TRUE)
             ELSE Run(Returned(EvaluationResult(args.query.v, args.response.v,
                                                verdict.passing, raw_response_txt)),
                      completed.calls, loads, parse, TRUE)

\* Up to the model call: the prompt, the image nodes, the calls made so far.
Prepare(self, args, env) ==
    LET context_str == ContextStr(args.contexts.v)
        evaluation_query_str == EvaluationQueryStr(args.query.v, args.response.v)
        fmt_prompt == Format(self.eval_template, context_str, evaluation_query_str)
        formatted == <<FormatCall(self.eval_template, context_str, evaluation_query_str)>>
    IN  IF ~Truthy(args.image_paths)
        THEN [raised |-> FALSE, exc |-> NoExc, fmt_prompt |-> fmt_prompt,
              image_nodes |-> Unbound, calls |-> formatted, loads |-> 0,
              parse |-> FALSE]
        ELSE LET loaded == LoadImageDocuments(args.image_paths.v, env.loads, 1,
                                              <<>>, formatted)
             IN  IF loaded.raised
                 THEN [raised |-> TRUE, exc |-> loaded.exc, fmt_prompt |-> fmt_prompt,
                       image_nodes |-> Unbound, calls |-> loaded.calls,
                       loads |-> loaded.loads, parse |-> FALSE]
                 ELSE LET parsed == ParseImageNodes(loaded.image_documents,
                                                    env.parse, loaded.calls)
                      IN  [raised |-> parsed.raised, exc |-> parsed.exc,
                           fmt_prompt |-> fmt_prompt,
                           image_nodes |-> parsed.image_nodes,
                           calls |-> parsed.calls, loads |-> loaded.loads,
                           parse |-> TRUE]

MissingArgumentError ==
    Exc("ValueError", "query, contexts, and response must be provided")

\* MultiModalRelevancyEvaluator.evaluate
EvaluateRun(self, args, env) ==
    IF ArgumentMissing(args.query, args.response, args.contexts)
    THEN Run(Raised(MissingArgumentError), <<>>, 0, FALSE, FALSE)
    ELSE LET p == Prepare(self, args, env)
         IN  IF p.raised
             THEN Run(Raised(p.exc), p.calls, p.loads, p.parse, FALSE)
             ELSE Conclude(self, args,
                           InvokeComplete(p.fmt_prompt, p.image_nodes, env.model, p.calls),
                           p.loads, p.parse)

\* MultiModalRelevancyEvaluator.aevaluate
AEvaluateRun(self, args, env) ==
    IF ArgumentMissing(args.query, args.response, args.contexts)
    THEN Run(Raised(MissingArgumentError), <<>>, 0, FALSE, FALSE)
    ELSE LET p == Prepare(self, args, env)
         IN  IF p.raised
             THEN Run(Raised(p.exc), p.calls, p.loads, p.parse, FALSE)
             ELSE Conclude(self, args,
                           InvokeAComplete(p.fmt_prompt, p.image_nodes, env.model, p.calls),
                           p.loads, p.parse)

----------------------------------------------------------------------------
(* Construction and prompt accessors *)

NoTemplateArg == [kind |-> "none", str |-> <<>>, template |-> PromptTemplate(<<>>)]
StrArg(str) == [kind |-> "str", str |-> str, template |-> PromptTemplate(<<>>)]
TemplateArg(template) == [kind |-> "template", str |-> <<>>, template |-> template]

\* if isinstance(t, str): PromptTemplate(t)  else: t or default
ResolveTemplate(arg, default) ==
    IF arg.kind = "str" THEN PromptTemplate(arg.str)
    ELSE IF arg.kind = "template" THEN arg.template
    ELSE default

\* multi_modal_llm or OpenAIMultiModal(model="gpt-4-vision-preview", max_new_tokens=1000)
ResolveLLM(arg) == IF arg = "None" THEN DEFAULT_MULTI_MODAL_LLM ELSE arg

\* MultiModalRelevancyEvaluator._get_prompts
GetPrompts(eval_template, refine_template) ==
    [eval_template |-> eval_template, refine_template |-> refine_template]

Absent == [present |-> FALSE, value |-> PromptTemplate(<<>>)]
Present(template) == [present |-> TRUE, value |-> template]

\* Variant: a key that is not supplied falls back to an empty template.
UpdatedPromptsReplacingAll(current, prompts) ==
    [eval_template |-> prompts.eval_template.value,
     refine_template |-> prompts.refine_template.value]

\* MultiModalRelevancyEvaluator._update_prompts, as the new prompt mapping
UpdatedPrompts(current, prompts) ==
    [eval_template |->
        IF prompts.eval_template.present THEN prompts.eval_template.value
        ELSE current.eval_template,
     refine_template |->
        IF prompts.refine_template.present THEN prompts.refine_template.value
        ELSE current.refine_template]

----------------------------------------------------------------------------
(* Inputs *)

EVAL_A == PromptTemplate(<<"Q: ", "{query_str}", " C: ", "{context_str}">>)
EVAL_B == PromptTemplate(<<"{context_str}", " => ", "{query_str}", " ?">>)
REFINE_A == PromptTemplate(<<"{query_str}", " / ", "{existing_answer}", " / ", "{context_msg}">>)

CtorArgs ==
    [multi_modal_llm : {"None", "StubMultiModal"},
     raise_error : BOOLEAN,
     eval_template : {NoTemplateArg, StrArg(EVAL_A.template), TemplateArg(EVAL_B)},
     refine_template : {NoTemplateArg, StrArg(REFINE_A.template)}]

PromptMappings ==
    [eval_template : {Absent, Present(EVAL_A), Present(EVAL_B)},
     refine_template : {Absent, Present(REFINE_A)}]

PARIS == <<"Paris is in France.">>
EIFFEL == <<"The Eiffel Tower is in Paris.">>

Queries == {None, Some(<<>>), Some(<<"Is this a cat?">>)}
Responses == {None, Some(<<>>), Some(<<"Yes, it is a cat.">>)}
ContextLists == {None, Some(<<>>), Some(<<PARIS>>), Some(<<PARIS, EIFFEL>>),
                 Some(<<EIFFEL, PARIS>>)}
ImagePathLists == {None, Some(<<>>), Some(<<"cat.png">>),
                   Some(<<"cat.png", "dog.png">>), Some(<<"dog.png", "cat.png">>)}
ImageUrlLists == {None, Some(<<"http://images/cat.png">>)}

Requests ==
    [query : Queries, response : Responses, contexts : ContextLists,
     image_paths : ImagePathLists, image_urls : ImageUrlLists]

\* One well-formed request with and one without an image, for the
\* specifications that vary something else.
FixedRequests ==
    [query : {Some(<<"Is this a cat?">>)}, response : {Some(<<"Yes, it is a cat.">>)},
     contexts : {Some(<<PARIS, EIFFEL>>)},
     image_paths : {None, Some(<<"cat.png">>)}, image_urls : {None}]

NoArgs ==
    [query |-> None, response |-> None, contexts |-> None, image_paths |-> None,
     image_urls |-> None]

Alphabet == {"y", "e", "s", "Y", "n", "o"}

\* Every text over Alphabet of at most n characters.
RawTexts(n) == UNION {[1..k -> Alphabet] : k \in 0..n}

SampleTexts == {<<>>, <<"Y", "E", "S">>, <<"N", "o">>, <<"y", "e", "s", "t">>}

NumPaths(args) == IF args.image_paths.some THEN Len(args.image_paths.v) ELSE 0

\* The responses the collaborators may give during a call with these
\* arguments: at most one load_data answer per path, at most one answer of the
\* parser and of the model.
EnvsFor(args, Texts) ==
    [loads : UNION {[1..k -> LoadResponses] : k \in 0..NumPaths(args)},
     parse : {Unused} \cup ParseResponses,
     model : {Unused, ModelRaises} \cup {ModelAnswers(t) : t \in Texts}]

----------------------------------------------------------------------------
(* State machine *)

Self ==
    [multi_modal_llm |-> _multi_modal_llm, raise_error |-> _raise_error,
     eval_template |-> _eval_template, refine_template |-> _refine_template]

NoCall == [op |-> "none", args |-> NoArgs]

\* MultiModalRelevancyEvaluator.__init__
Construct(a) ==
    /\ _multi_modal_llm = ResolveLLM(a.multi_modal_llm)
    /\ _raise_error = a.raise_error
    /\ _eval_template = ResolveTemplate(a.eval_template, DEFAULT_EVAL_TEMPLATE)
    /\ _refine_template = ResolveTemplate(a.refine_template, DEFAULT_REFINE_TEMPLATE)
    /\ ctor = a
    /\ updates = <<>>
    /\ call = NoCall
    /\ responses = NoResponses
    /\ calls = <<>>
    /\ outcome = NoOutcome

Init == \E a \in CtorArgs : Construct(a)

\* The call ran to its end against the responses env, all of which it used.
Finish(op, args, env, run) ==
    /\ run.used = Shape(env)
    /\ call' = [op |-> op, args |-> args]
    /\ responses' = env
    /\ calls' = run.calls
    /\ outcome' = run.outcome
    /\ UNCHANGED <<_multi_modal_llm, _raise_error, _eval_template,
                   _refine_template, ctor, updates>>

Evaluate(Reqs, Texts) ==
    /\ call = NoCall
    /\ \E args \in Reqs : \E env \in EnvsFor(args, Texts) :
           Finish("evaluate", args, env, EvaluateRun(Self, args, env))

AEvaluate(Reqs, Texts) ==
    /\ call = NoCall
    /\ \E args \in Reqs : \E env \in EnvsFor(args, Texts) :
           Finish("aevaluate", args, env, AEvaluateRun(Self, args, env))

\* The caller has taken the result or the error; nothing of the call is kept.
Release ==
    /\ call # NoCall
    /\ call' = NoCall
    /\ responses' = NoResponses
    /\ calls' = <<>>
    /\ outcome' = NoOutcome
    /\ UNCHANGED <<_multi_modal_llm, _raise_error, _eval_template,
                   _refine_template, ctor, updates>>

UpdatePrompts ==
    /\ call = NoCall
    /\ Len(updates) < MaxUpdates
    /\ \E prompts \in PromptMappings :
         LET new == UpdatedPrompts(GetPrompts(_eval_template, _refine_template), prompts)
         IN  /\ _eval_template' = new.eval_template
             /\ _refine_template' = new.refine_template
             /\ updates' = Append(updates, prompts)
    /\ UNCHANGED <<_multi_modal_llm, _raise_error, ctor, call, responses, calls,
                   outcome>>

\* Evaluations of an evaluator as constructed.
Next ==
    \/ Evaluate(Requests, SampleTexts)
    \/ AEvaluate(Requests, SampleTexts)
    \/ Release

Spec == Init /\ [][Next]_vars

\* Prompt updates between evaluations.
NextPrompts ==
    \/ UpdatePrompts
    \/ Evaluate(FixedRequests, SampleTexts)
    \/ AEvaluate(FixedRequests, SampleTexts)
    \/ Release

SpecPrompts == Init /\ [][NextPrompts]_vars

\* Every raw model answer, for the default prompts.
InitVerdict ==
    \E a \in CtorArgs :
        /\ a.multi_modal_llm = "StubMultiModal"
        /\ a.eval_template = NoTemplateArg
        /\ a.refine_template = NoTemplateArg
        /\ Construct(a)

NextVerdict ==
    \/ Evaluate(FixedRequests, RawTexts(MaxRawLen))
    \/ Release

SpecVerdict == InitVerdict /\ [][NextVerdict]_vars

----------------------------------------------------------------------------
(* Vocabulary of the properties *)

Ended == call.op \in {"evaluate", "aevaluate"}

AllProvided(args) == args.query.some /\ args.response.some /\ args.contexts.some

HasImages(args) == args.image_paths.some /\ args.image_paths.v # <<>>

ModelCalls == {i \in DOMAIN calls : calls[i].op \in {"complete", "acomplete"}}
LoadCalls == {i \in DOMAIN calls : calls[i].op = "load_data"}
ParseCalls == {i \in DOMAIN calls : calls[i].op = "get_nodes_from_documents"}
FormatCalls == {i \in DOMAIN calls : calls[i].op = "format"}

NoCollaboratorFails ==
    /\ \A i \in DOMAIN responses.loads : responses.loads[i].kind # "raise"
    /\ responses.parse.kind # "raise"
    /\ responses.model.kind # "raise"

\* Some three consecutive characters are y, e, s in either case.
HasYes(text) ==
    \E i \in 1..(Len(text) - 2) :
        /\ text[i] \in {"y", "Y"}
        /\ text[i + 1] \in {"e", "E"}
        /\ text[i + 2] \in {"s", "S"}

InvalidResultError == Exc("ValueError", "The response is invalid")

----------------------------------------------------------------------------
(* C1: a call of evaluate or aevaluate with query, response and contexts   *)
(* provided and image_paths empty or omitted does not end in the error of  *)
(* the unassigned image-node variable and calls the model with an empty    *)
(* collection of image nodes.                                              *)
C1_NoImagesReachTheModel ==
    (Ended /\ AllProvided(call.args) /\ ~HasImages(call.args))
        => /\ outcome.exc.type # "UnboundLocalError"
           /\ \E i \in ModelCalls : calls[i].objs = <<>>

(* C2: with raise_error false, a call of evaluate with query, response and *)
(* contexts provided and collaborators that do not fail returns a result.  *)
C2_WellFormedCallReturns ==
    (call.op = "evaluate" /\ ~_raise_error /\ AllProvided(call.args)
        /\ NoCollaboratorFails)
        => outcome.kind = "return"

(* C3: evaluate and aevaluate end with the missing-argument ValueError     *)
(* exactly when one of query, response, contexts is None, and then no      *)
(* collaborator was called; an empty string or an empty contexts list is   *)
(* not missing.                                                            *)
C3_MissingArgument ==
    Ended =>
        /\ (outcome = Raised(MissingArgumentError)) <=> ~AllProvided(call.args)
        /\ ~AllProvided(call.args) => calls = <<>> /\ responses = NoResponses
        /\ AllProvided(call.args) => FormatCalls # {}

C3_Witness ==
    /\ call.op = "aevaluate"
    /\ call.args.contexts = None
    /\ HasImages(call.args)
    /\ outcome = Raised(MissingArgumentError)

(* C4: with raise_error true, a raw answer without "yes" (any case) ends   *)
(* the call with the invalid-result ValueError and no result; a raw answer *)
(* with "yes" returns a result with passing = true.                        *)
C4_RaiseOnFail ==
    (Ended /\ _raise_error /\ responses.model.kind = "text") =>
        IF HasYes(responses.model.text)
        THEN outcome.kind = "return" /\ outcome.result.passing
        ELSE outcome = Raised(InvalidResultError)

C4_Witness ==
    /\ call.op = "evaluate"
    /\ _raise_error
    /\ responses.model = ModelAnswers(<<"N", "o">>)
    /\ outcome = Raised(InvalidResultError)

(* C5: a returned result has passing = true exactly when the raw answer    *)
(* has "yes" in it in any case, anywhere; its feedback is the raw answer   *)
(* and its query and response are the arguments.                           *)
C5_VerdictIsYesSubstring ==
    (call.op = "evaluate" /\ responses.model.kind = "text"
        /\ outcome.kind = "return") =>
        /\ outcome.result.passing <=> HasYes(responses.model.text)
        /\ outcome.result.feedback = responses.model.text
        /\ outcome.result.query = call.args.query.v
        /\ outcome.result.response = call.args.response.v

C5_Witness ==
    /\ call.op = "evaluate"
    /\ responses.model = ModelAnswers(<<"n", "o", "Y", "e", "s">>)
    /\ outcome.kind = "return"
    /\ outcome.result.passing

(* C6: in every returned result score is 1.0 or 0.0, and it is 1.0 exactly *)
(* when passing is true.                                                   *)
C6_ScoreMatchesPassing ==
    (Ended /\ outcome.kind = "return") =>
        /\ outcome.result.score \in {0, 1}
        /\ outcome.result.score = 1 <=> outcome.result.passing

C6_Witness ==
    /\ call.op = "aevaluate"
    /\ outcome.kind = "return"
    /\ ~outcome.result.passing
    /\ outcome.result.score = 0

(* C7: an update of the prompts replaces exactly the templates whose key   *)
(* is in the mapping and changes neither the other template nor            *)
(* raise_error nor the model handle; the accessor returns for each key the *)
(* value of the latest update that had the key, else the constructor's     *)
(* value; an evaluation renders the current eval template.                 *)
EvalUpdates == {i \in DOMAIN updates : updates[i].eval_template.present}
RefineUpdates == {i \in DOMAIN updates : updates[i].refine_template.present}
Latest(S) == CHOOSE i \in S : \A j \in S : j <= i

C7_AccessorReturnsLatest ==
    /\ GetPrompts(_eval_template, _refine_template).eval_template =
          IF EvalUpdates = {}
          THEN ResolveTemplate(ctor.eval_template, DEFAULT_EVAL_TEMPLATE)
          ELSE updates[Latest(EvalUpdates)].eval_template.value
    /\ GetPrompts(_eval_template, _refine_template).refine_template =
          IF RefineUpdates = {}
          THEN ResolveTemplate(ctor.refine_template, DEFAULT_REFINE_TEMPLATE)
          ELSE updates[Latest(RefineUpdates)].refine_template.value

C7_RendersCurrentTemplate ==
    (Ended /\ AllProvided(call.args)) =>
        /\ FormatCalls = {1}
        /\ calls[1].strs[1] = _eval_template.template

C7_UpdateFrame ==
    /\ _raise_error' = _raise_error
    /\ _multi_modal_llm' = _multi_modal_llm
    /\ updates' = updates =>
          _eval_template' = _eval_template /\ _refine_template' = _refine_template
    /\ updates' # updates =>
          /\ Len(updates') = Len(updates) + 1
          /\ ~updates'[Len(updates')].eval_template.present
                => _eval_template' = _eval_template
          /\ ~updates'[Len(updates')].refine_template.present
                => _refine_template' = _refine_template

C7_UpdatePrompts ==
    /\ [](C7_AccessorReturnsLatest /\ C7_RendersCurrentTemplate)
    /\ [][C7_UpdateFrame]_vars

C7_Witness ==
    /\ Len(updates) = 2
    /\ updates[1].eval_template = Present(EVAL_A)
    /\ updates[1].refine_template = Absent
    /\ updates[2].eval_template = Absent
    /\ updates[2].refine_template = Present(REFINE_A)
    /\ ctor.eval_template = TemplateArg(EVAL_B)
    /\ _eval_template = EVAL_A
    /\ call.op = "evaluate"
    /\ calls[1].strs[1] = EVAL_A.template

(* C8: on the same arguments, the same evaluator and the same answers of   *)
(* the collaborators, evaluate and aevaluate end alike (the same error or  *)
(* equal results) and make the same collaborator calls with the same       *)
(* prompt and image nodes, complete and acomplete apart.                   *)
ModelOpAs(op, log) ==
    [i \in DOMAIN log |->
        IF log[i].op \in {"complete", "acomplete"}
        THEN [log[i] EXCEPT !.op = op] ELSE log[i]]

C8_AsyncMatchesSync ==
    /\ call.op = "evaluate" =>
          LET a == AEvaluateRun(Self, call.args, responses)
          IN  /\ a.outcome = outcome
              /\ a.used = Shape(responses)
              /\ ModelOpAs("complete", a.calls) = calls
    /\ call.op = "aevaluate" =>
          LET e == EvaluateRun(Self, call.args, responses)
          IN  /\ e.outcome = outcome
              /\ e.used = Shape(responses)
              /\ ModelOpAs("acomplete", e.calls) = calls

C8_Witness ==
    /\ call.op = "aevaluate"
    /\ HasImages(call.args)
    /\ outcome.kind = "return"
    /\ \E i \in ModelCalls : calls[i].op = "acomplete" /\ calls[i].objs # <<>>

(* C9: a call of evaluate calls the model at most once and repeats no      *)
(* collaborator call; when load_data, the node parser or the model fails,  *)
(* evaluate ends with that very error and no result, and after a failure   *)
(* of load_data or of the parser the model is not called.                  *)
C9_NoRetryErrorsPropagate ==
    call.op = "evaluate" =>
        /\ Cardinality(ModelCalls) <= 1
        /\ Cardinality(ParseCalls) <= 1
        /\ Cardinality(LoadCalls) = Len(responses.loads)
        /\ Cardinality(LoadCalls) <= NumPaths(call.args)
        /\ \A i \in DOMAIN responses.loads :
              responses.loads[i].kind = "raise" =>
                  /\ outcome = Raised(responses.loads[i].exc)
                  /\ ModelCalls = {} /\ ParseCalls = {}
        /\ responses.parse.kind = "raise" =>
              outcome = Raised(responses.parse.exc) /\ ModelCalls = {}
        /\ responses.model.kind = "raise" =>
              outcome = Raised(responses.model.exc) /\ Cardinality(ModelCalls) = 1

C9_Witness ==
    /\ call.op = "evaluate"
    /\ responses.model = ModelRaises
    /\ outcome = Raised(ModelRaises.exc)
    /\ Len(responses.loads) = 2

(* C10: with image paths, evaluate loads the paths one by one in the       *)
(* caller's order, accumulates their documents in that order, calls the    *)
(* node parser once on the whole list after the last path, and calls the   *)
(* model after that with the parser's nodes; contexts are joined in order  *)
(* with a blank line between them; image_urls changes nothing.             *)
RECURSIVE DocsBefore(_, _)
DocsBefore(loads, i) ==
    IF i <= 1 THEN 0 ELSE DocsBefore(loads, i - 1) + loads[i - 1].n

C10_IsAccumulation(items, kind, paths, loads) ==
    /\ Len(items) = DocsBefore(loads, Len(paths) + 1)
    /\ \A i \in DOMAIN paths : \A j \in 1..loads[i].n :
          items[DocsBefore(loads, i) + j] = [kind |-> kind, path |-> paths[i], idx |-> j]

C10_IsJoined(context_str, contexts) ==
    /\ Len(context_str) = IF contexts = <<>> THEN 0 ELSE 2 * Len(contexts) - 1
    /\ \A i \in DOMAIN contexts :
          /\ Len(contexts[i]) = 1
          /\ context_str[2 * i - 1] = contexts[i][1]
          /\ i > 1 => context_str[2 * i - 2] = "\n\n"

C10_OrderedPipeline ==
    (call.op = "evaluate" /\ AllProvided(call.args)) =>
        /\ calls[1].op = "format"
        /\ C10_IsJoined(calls[1].strs[2], call.args.contexts.v)
        /\ \A u \in ImageUrlLists :
              LET other == EvaluateRun(Self, [call.args EXCEPT !.image_urls = u],
                                       responses)
              IN  other.outcome = outcome /\ other.calls = calls
        /\ HasImages(call.args) =>
              LET paths == call.args.image_paths.v
                  n == Len(paths)
              IN  /\ \A i \in DOMAIN responses.loads :
                        calls[1 + i] = CallRecord("load_data", <<(<<paths[i]>>)>>, <<>>)
                  /\ \A i \in ParseCalls :
                        /\ i = n + 2
                        /\ Len(responses.loads) = n
                        /\ C10_IsAccumulation(calls[i].objs, "document", paths,
                                              responses.loads)
                  /\ \A i \in ModelCalls :
                        /\ i = n + 3
                        /\ calls[i - 1].op = "get_nodes_from_documents"
                        /\ C10_IsAccumulation(calls[i].objs, "node", paths,
                                              responses.loads)
                        /\ calls[i].strs[1] =
                              Format(_eval_template, calls[1].strs[2], calls[1].strs[3])
                  /\ outcome.kind = "return" => ModelCalls # {}

C10_Witness ==
    /\ call.op = "evaluate"
    /\ call.args.image_paths = Some(<<"dog.png", "cat.png">>)
    /\ call.args.contexts = Some(<<EIFFEL, PARIS>>)
    /\ call.args.image_urls # None
    /\ responses.loads = <<ReaderYields(2), ReaderYields(1)>>
    /\ outcome.kind = "return"
    /\ calls[5].objs = <<ImageNode(Document("dog.png", 1)), ImageNode(Document("dog.png", 2)),
                         ImageNode(Document("cat.png", 1))>>

====
